---- MODULE Spec2Model ----
(***************************************************************************)
(* Model of plotting_comprehensive.py: main() loads a benchmark CSV,       *)
(* derives the categorical columns and runs seven views in a fixed order   *)
(* inside one try/except.  A string is a sequence of one-character         *)
(* strings, so that substring tests, split('_') and the lexicographic      *)
(* order pandas sorts by are computed as the code computes them.  A mean   *)
(* or a ratio is an exact fraction [n, d]; d = 0 stands for the float      *)
(* results inf (n > 0) and NaN (n = 0).  Rounding of floats is not         *)
(* modelled.  The LogExecutionTime column (line 79) is read by no view     *)
(* and is left out.                                                        *)
(***************************************************************************)
EXTENDS Integers, Sequences, FiniteSets, TLC

VARIABLES input, df, pc, rendered, attempted, raised, loadFailed

vars == <<input, df, pc, rendered, attempted, raised, loadFailed>>

----------------------------------------------------------------------------
(* Characters in code-point order; CodeOf gives the rank of a character.   *)

Chars ==
  <<" ", "&", "(", ")", "-", "2", "3",
    "A", "B", "C", "D", "E", "F", "G", "H", "I", "J", "K", "L", "M",
    "N", "O", "P", "Q", "R", "S", "T", "U", "V", "W", "X", "Y", "Z", "_",
    "a", "b", "c", "d", "e", "f", "g", "h", "i", "j", "k", "l", "m",
    "n", "o", "p", "q", "r", "s", "t", "u", "v", "w", "x", "y", "z", "^">>

CodeOf == [c \in {Chars[i] : i \in DOMAIN Chars} |->
             CHOOSE i \in DOMAIN Chars : Chars[i] = c]

Range(s) == {s[i] : i \in DOMAIN s}

\* The first index from i on at which a and b differ, or 0 when the shorter
\* one is a prefix of the other.
RECURSIVE FirstDiff(_, _, _)
FirstDiff(a, b, i) ==
  IF i > Len(a) \/ i > Len(b) THEN 0
  ELSE IF a[i] # b[i] THEN i
  ELSE FirstDiff(a, b, i + 1)

\* Python's str < str: the first differing character decides, a proper
\* prefix is smaller.
LexLess(a, b) ==
  LET k == FirstDiff(a, b, 1)
  IN IF k = 0 THEN Len(a) < Len(b) ELSE CodeOf[a[k]] < CodeOf[b[k]]

\* Python's `sub in s`.
Contains(s, sub) ==
  \E i \in 1..(Len(s) - Len(sub) + 1) : SubSeq(s, i, i + Len(sub) - 1) = sub

\* Python's s.split('_'): the pieces between separators, empty ones kept.
RECURSIVE Split(_)
Split(s) ==
  IF \A i \in DOMAIN s : s[i] # "_" THEN <<s>>
  ELSE LET k == CHOOSE i \in DOMAIN s :
                  s[i] = "_" /\ \A j \in 1..(i - 1) : s[j] # "_"
       IN <<SubSeq(s, 1, k - 1)>> \o Split(SubSeq(s, k + 1, Len(s)))

\* Python's '_'.join(parts).
RECURSIVE Join(_)
Join(parts) ==
  IF Len(parts) = 0 THEN <<>>
  ELSE IF Len(parts) = 1 THEN parts[1]
  ELSE parts[1] \o <<"_">> \o Join(Tail(parts))

----------------------------------------------------------------------------
(* String literals of the source.                                          *)

CLOSEST_PAIR == <<"C","L","O","S","E","S","T","_","P","A","I","R">>
DIAMETER == <<"D","I","A","M","E","T","E","R">>
NAIVE == <<"N","A","I","V","E">>
EFFICIENT == <<"E","F","F","I","C","I","E","N","T">>
KDTREE == <<"K","D","T","R","E","E">>
ADAPTIVE == <<"A","D","A","P","T","I","V","E">>
CONCURRENT == <<"C","O","N","C","U","R","R","E","N","T">>
QUICKHULL == <<"Q","U","I","C","K","H","U","L","L">>

CLOSEST_PAIR_NAIVE == Join(<<CLOSEST_PAIR, NAIVE>>)
CLOSEST_PAIR_EFFICIENT == Join(<<CLOSEST_PAIR, EFFICIENT>>)
CLOSEST_PAIR_KDTREE == Join(<<CLOSEST_PAIR, KDTREE>>)
CLOSEST_PAIR_ADAPTIVE == Join(<<CLOSEST_PAIR, ADAPTIVE>>)
DIAMETER_NAIVE == Join(<<DIAMETER, NAIVE>>)
DIAMETER_CONCURRENT == Join(<<DIAMETER, CONCURRENT>>)
DIAMETER_QUICKHULL == Join(<<DIAMETER, QUICKHULL>>)

\* "^" stands for the superscript two of the source's label.
LabelNaive == <<"N","a","i","v","e"," ","O","(","n","^",")">>
LabelDivide ==
  <<"D","i","v","i","d","e"," ","&"," ","C","o","n","q","u","e","r">>
LabelKDTree == <<"K","D","-","T","r","e","e">>
LabelAdaptive == <<"A","d","a","p","t","i","v","e">>
LabelConcurrent == <<"C","o","n","c","u","r","r","e","n","t">>
LabelQuickHull == <<"Q","u","i","c","k","H","u","l","l">>

TWO_D == <<"T","W","O","_","D">>
THREE_D == <<"T","H","R","E","E","_","D">>
UNIFORM == <<"U","N","I","F","O","R","M">>
CLUSTERED == <<"C","L","U","S","T","E","R","E","D">>

Dimensions == <<TWO_D, THREE_D>>
AlgoGroups == <<"Closest Pair", "Diameter">>

----------------------------------------------------------------------------
(* Field derivation, load_and_prepare_data.                                *)

\* A dict as a set of <<key, value>> pairs; d.get(k, default).
DictGet(d, k, default) ==
  IF \E e \in d : e[1] = k THEN (CHOOSE e \in d : e[1] = k)[2] ELSE default

\* The loader's copy of the table with one label drifted from the global
\* copy.
local_algorithm_names_drifted ==
  { <<CLOSEST_PAIR_NAIVE, LabelNaive>>,
    <<CLOSEST_PAIR_EFFICIENT, LabelDivide>>,
    <<CLOSEST_PAIR_KDTREE, LabelKDTree>>,
    <<CLOSEST_PAIR_ADAPTIVE, LabelAdaptive>>,
    <<DIAMETER_NAIVE, NAIVE>>,
    <<DIAMETER_CONCURRENT, LabelConcurrent>>,
    <<DIAMETER_QUICKHULL, LabelQuickHull>> }

\* The table bound inside load_and_prepare_data.
local_algorithm_names ==
  { <<CLOSEST_PAIR_NAIVE, LabelNaive>>,
    <<CLOSEST_PAIR_EFFICIENT, LabelDivide>>,
    <<CLOSEST_PAIR_KDTREE, LabelKDTree>>,
    <<CLOSEST_PAIR_ADAPTIVE, LabelAdaptive>>,
    <<DIAMETER_NAIVE, LabelNaive>>,
    <<DIAMETER_CONCURRENT, LabelConcurrent>>,
    <<DIAMETER_QUICKHULL, LabelQuickHull>> }

\* The module-level table the views read.
algorithm_names ==
  { <<CLOSEST_PAIR_NAIVE, LabelNaive>>,
    <<CLOSEST_PAIR_EFFICIENT, LabelDivide>>,
    <<CLOSEST_PAIR_KDTREE, LabelKDTree>>,
    <<CLOSEST_PAIR_ADAPTIVE, LabelAdaptive>>,
    <<DIAMETER_NAIVE, LabelNaive>>,
    <<DIAMETER_CONCURRENT, LabelConcurrent>>,
    <<DIAMETER_QUICKHULL, LabelQuickHull>> }

\* A group test on the id's prefix instead of a substring test.
AlgorithmGroupOf_prefix(x) ==
  IF Len(x) >= Len(CLOSEST_PAIR) /\ SubSeq(x, 1, Len(CLOSEST_PAIR)) = CLOSEST_PAIR
  THEN "Closest Pair" ELSE "Diameter"

AlgorithmGroupOf(x) ==
  IF Contains(x, CLOSEST_PAIR) THEN "Closest Pair" ELSE "Diameter"

AlgorithmTypeOf(x) ==
  LET parts == Split(x)
  IN IF parts[1] = DIAMETER THEN parts[1]
     ELSE Join(SubSeq(parts, 1, IF Len(parts) < 2 THEN Len(parts) ELSE 2))

AlgorithmVariantOf(x) ==
  LET parts == Split(x) IN parts[Len(parts)]

AlgorithmNameOf(x) == DictGet(local_algorithm_names, x, x)

\* The label the views look up: algorithm_names.get(algo, algo).
ViewLabel(algo) == DictGet(algorithm_names, algo, algo)

----------------------------------------------------------------------------
(* Numbers: exact fractions for the float results of mean() and of the     *)
(* speedup division.                                                       *)

RECURSIVE GCD(_, _)
GCD(a, b) == IF b = 0 THEN a ELSE GCD(b, a % b)

\* n / d for n, d >= 0; x / 0.0 is inf and 0.0 / 0.0 is NaN in numpy.
Frac(n, d) ==
  IF d = 0 THEN [n |-> IF n = 0 THEN 0 ELSE 1, d |-> 0]
  ELSE LET g == GCD(n, d) IN [n |-> n \div g, d |-> d \div g]

NaN == [n |-> 0, d |-> 0]

FracLess(a, b) == a.n * b.d < b.n * a.d

\* The quotient taken the wrong way round.
FracDiv_inverted(a, b) == Frac(b.n * a.d, b.d * a.n)

\* a / b on floats.
FracDiv(a, b) == Frac(a.n * b.d, a.d * b.n)

RECURSIVE SumSeq(_)
SumSeq(s) == IF s = <<>> THEN 0 ELSE Head(s) + SumSeq(Tail(s))

\* The sum of the group in place of its mean.
Mean_sum(values) == Frac(SumSeq(values), 1)

\* Series.mean() of a non-empty group.
Mean(values) == Frac(SumSeq(values), Len(values))

SetMin(S) == CHOOSE x \in S : \A y \in S : x <= y
SetMax(S) == CHOOSE x \in S : \A y \in S : y <= x

----------------------------------------------------------------------------
(* Sequences and tables.                                                   *)

Column(rows, f) == [i \in DOMAIN rows |-> rows[i][f]]

\* Series.unique(): the distinct values in order of first appearance.
RECURSIVE Unique(_)
Unique(s) ==
  IF s = <<>> THEN <<>>
  ELSE LET u == Unique(SubSeq(s, 1, Len(s) - 1))
       IN IF s[Len(s)] \in Range(u) THEN u ELSE Append(u, s[Len(s)])

RECURSIVE Concat(_)
Concat(ss) == IF ss = <<>> THEN <<>> ELSE Head(ss) \o Concat(Tail(ss))

RECURSIVE SortStrings(_)
SortStrings(S) ==
  IF S = {} THEN <<>>
  ELSE LET m == CHOOSE x \in S : \A y \in S \ {x} : LexLess(x, y)
       IN <<m>> \o SortStrings(S \ {m})

RECURSIVE SortInts(_)
SortInts(S) ==
  IF S = {} THEN <<>>
  ELSE LET m == SetMin(S) IN <<m>> \o SortInts(S \ {m})

FieldLess(f, a, b) ==
  IF f = "Size" THEN a.Size < b.Size ELSE LexLess(a[f], b[f])

\* Order of two group keys: the key columns compared left to right.
RECURSIVE KeyLess(_, _, _)
KeyLess(a, b, keys) ==
  IF keys = <<>> THEN FALSE
  ELSE IF FieldLess(Head(keys), a, b) THEN TRUE
  ELSE IF FieldLess(Head(keys), b, a) THEN FALSE
  ELSE KeyLess(a, b, Tail(keys))

\* The key columns of a row; a column that is no key is blank.
KeyOf(r, ks) ==
  [Algorithm     |-> IF "Algorithm" \in ks THEN r.Algorithm ELSE <<>>,
   AlgorithmName |-> IF "AlgorithmName" \in ks THEN r.AlgorithmName ELSE <<>>,
   Dimension     |-> IF "Dimension" \in ks THEN r.Dimension ELSE <<>>,
   Size          |-> IF "Size" \in ks THEN r.Size ELSE 0,
   Distribution  |-> IF "Distribution" \in ks THEN r.Distribution ELSE <<>>]

\* The group keys sorted in descending order (sort with ascending=False).
RECURSIVE SortKeys_descending(_, _)
SortKeys_descending(S, keys) ==
  IF S = {} THEN <<>>
  ELSE LET m == CHOOSE x \in S : \A y \in S \ {x} : KeyLess(y, x, keys)
       IN <<m>> \o SortKeys_descending(S \ {m}, keys)

RECURSIVE SortKeys(_, _)
SortKeys(S, keys) ==
  IF S = {} THEN <<>>
  ELSE LET m == CHOOSE x \in S : \A y \in S \ {x} : KeyLess(x, y, keys)
       IN <<m>> \o SortKeys(S \ {m}, keys)

\* One aggregated row: the key and the mean of the group.
GroupRow(rows, key, keys, field) ==
  LET members == SelectSeq(rows, LAMBDA r : KeyOf(r, Range(keys)) = key)
  IN [Algorithm     |-> key.Algorithm,
      AlgorithmName |-> key.AlgorithmName,
      Dimension     |-> key.Dimension,
      Size          |-> key.Size,
      Distribution  |-> key.Distribution,
      Value         |-> Mean(Column(members, field))]

\* groupby(keys, sort=False): the groups in order of first appearance.
GroupBy_unsorted(rows, keys, field) ==
  LET ks == Unique([i \in DOMAIN rows |-> KeyOf(rows[i], Range(keys))])
  IN [i \in DOMAIN ks |-> GroupRow(rows, ks[i], keys, field)]

\* rows.groupby(keys)[field].mean().reset_index(): one row per observed key,
\* sorted by the key.
GroupBy(rows, keys, field) ==
  LET ks == {KeyOf(rows[i], Range(keys)) : i \in DOMAIN rows}
      sorted == SortKeys(ks, keys)
  IN [i \in DOMAIN sorted |-> GroupRow(rows, sorted[i], keys, field)]

----------------------------------------------------------------------------
(* The input file and load_and_prepare_data.  A numeric cell of the CSV is *)
(* [ok, v]: ok says whether pd.to_numeric can parse the text, v is the     *)
(* number it parses to.                                                    *)

CsvColumns == {"Algorithm", "Dimension", "Size", "Distribution", "Time", "Mem"}
DerivedColumns ==
  {"AlgorithmGroup", "AlgorithmType", "AlgorithmVariant", "AlgorithmName"}

Num(v) == [ok |-> TRUE, v |-> v]
NotANumber == [ok |-> FALSE, v |-> 0]

RawRow(a, dim, size, dist, time, mem) ==
  [Algorithm |-> a, Dimension |-> dim, Size |-> size, Distribution |-> dist,
   Time |-> time, Mem |-> mem]

\* pd.to_numeric(df[col]) raises KeyError for a missing column and
\* ValueError for a cell it cannot parse.
ToNumericRaises(inp, col) ==
  \/ col \notin inp.columns
  \/ \E i \in DOMAIN inp.rows : ~inp.rows[i][col].ok

LoadRaises(inp) ==
  \/ ~inp.exists
  \/ ToNumericRaises(inp, "Size")
  \/ ToNumericRaises(inp, "Time")
  \/ ToNumericRaises(inp, "Mem")
  \/ "Algorithm" \notin inp.columns

PrepareRow(r) ==
  [Algorithm        |-> r.Algorithm,
   Dimension        |-> r.Dimension,
   Size             |-> r.Size.v,
   Distribution     |-> r.Distribution,
   Time             |-> r.Time.v,
   Mem              |-> r.Mem.v,
   AlgorithmGroup   |-> AlgorithmGroupOf(r.Algorithm),
   AlgorithmType    |-> AlgorithmTypeOf(r.Algorithm),
   AlgorithmVariant |-> AlgorithmVariantOf(r.Algorithm),
   AlgorithmName    |-> AlgorithmNameOf(r.Algorithm)]

load_and_prepare_data(inp) ==
  [columns |-> inp.columns \cup DerivedColumns,
   rows    |-> [i \in DOMAIN inp.rows |-> PrepareRow(inp.rows[i])]]

NoFrame == [columns |-> {}, rows |-> <<>>]

----------------------------------------------------------------------------
(* What a view hands to the renderer.  A figure is the file it is saved    *)
(* to, its title's algorithm name and its axes; an axis holds the plotted  *)
(* series in plotting order, the data of the reference lines and the       *)
(* n=... of its title.  A point is (x, y) on a size axis, (cat, y) on a    *)
(* categorical one.                                                        *)

NoRef == [lo |-> 0, hi |-> 0, top |-> NaN]

Axis(series, ref, n) == [series |-> series, ref |-> ref, n |-> n]

File(kind, dim, group, tag) ==
  [kind |-> kind, dim |-> dim, group |-> group, tag |-> tag]

Figure(file, title, axes) == [file |-> file, title |-> title, axes |-> axes]

Series(label, points) == [label |-> label, points |-> points]

DimLabel(dimension) == IF dimension = TWO_D THEN <<"2", "D">> ELSE <<"3", "D">>

\* algo_group.replace(' ', '')
GroupFile(g) == IF g = "Closest Pair" THEN "ClosestPair" ELSE g

MarkerOf(g) == IF g = "Closest Pair" THEN CLOSEST_PAIR ELSE DIAMETER

\* The nested loops over dimension and algorithm group, in loop order.
Combos ==
  [k \in 1..(Len(Dimensions) * Len(AlgoGroups)) |->
     <<Dimensions[((k - 1) \div Len(AlgoGroups)) + 1],
       AlgoGroups[((k - 1) % Len(AlgoGroups)) + 1]>>]

\* The outcome of a loop whose passes each save figures or raise: the
\* figures saved before the first exception, and whether one was raised.
CombineSteps(steps) ==
  LET bad == {i \in DOMAIN steps : steps[i].raised}
      last == IF bad = {} THEN Len(steps) ELSE SetMin(bad)
  IN [raised |-> bad # {},
      figs   |-> Concat([i \in 1..last |-> steps[i].figs])]

Ok(figs) == [raised |-> FALSE, figs |-> figs]
Raise == [raised |-> TRUE, figs |-> <<>>]

\* The (Size, value) points of the rows of one series.
SizePoints(rows) ==
  [i \in DOMAIN rows |-> [x |-> rows[i].Size, cat |-> <<>>, y |-> rows[i].Value]]

\* One line per algorithm of the table, labelled from the global table.
AlgoSeries(table) ==
  LET algorithms == Unique(Column(table, "Algorithm"))
  IN [i \in DOMAIN algorithms |->
        Series(ViewLabel(algorithms[i]),
               SizePoints(SelectSeq(table,
                 LAMBDA r : r.Algorithm = algorithms[i])))]

\* x_range and scale_factor of the complexity reference lines are functions
\* of the least and greatest size and of the greatest mean time.
RefLines(table) ==
  LET sizes == Range(Column(table, "Size"))
      values == Range(Column(table, "Value"))
  IN [lo  |-> SetMin(sizes),
      hi  |-> SetMax(sizes),
      top |-> CHOOSE v \in values : \A w \in values : ~FracLess(v, w)]

\* The largest size taken within each row's own dimension.
LargestData_perDimension(rows) ==
  SelectSeq(rows, LAMBDA r :
    \A i \in DOMAIN rows : rows[i].Dimension = r.Dimension => rows[i].Size <= r.Size)

\* df[df['Size'] == df['Size'].max()]
LargestData(rows) ==
  IF rows = <<>> THEN <<>>
  ELSE LET max_size == SetMax(Range(Column(rows, "Size")))
       IN SelectSeq(rows, LAMBDA r : r.Size = max_size)

MaxSizeOf(rows) ==
  IF rows = <<>> THEN 0 ELSE SetMax(Range(Column(rows, "Size")))

\* DataFrame.pivot raises ValueError when an (index, column) pair repeats.
PivotRaises(table, idx, col) ==
  \E i, j \in DOMAIN table :
    i # j /\ table[i][idx] = table[j][idx] /\ table[i][col] = table[j][col]

PivotCell(table, idx, iv, col, cv) ==
  IF \E i \in DOMAIN table : table[i][idx] = iv /\ table[i][col] = cv
  THEN table[CHOOSE i \in DOMAIN table :
               table[i][idx] = iv /\ table[i][col] = cv].Value
  ELSE NaN

\* pivot(index='Algorithm', columns='Distribution') drawn as bars: one
\* series per distribution, one bar per algorithm, both sorted.
BarSeries(table) ==
  LET index == SortStrings(Range(Column(table, "Algorithm")))
      columns == SortStrings(Range(Column(table, "Distribution")))
  IN [c \in DOMAIN columns |->
        Series(columns[c],
          [i \in DOMAIN index |->
             [x |-> 0, cat |-> index[i],
              y |-> PivotCell(table, "Algorithm", index[i],
                              "Distribution", columns[c])]])]

\* pivot(index='Size', columns='AlgorithmName') drawn as a heatmap: one
\* column per name, one row per size, both sorted.
HeatSeries(table) ==
  LET index == SortInts(Range(Column(table, "Size")))
      columns == SortStrings(Range(Column(table, "AlgorithmName")))
  IN [c \in DOMAIN columns |->
        Series(columns[c],
          [i \in DOMAIN index |->
             [x |-> index[i], cat |-> <<>>,
              y |-> PivotCell(table, "Size", index[i],
                              "AlgorithmName", columns[c])]])]

\* The merge as a left join: a size without a naive row keeps its row, the
\* naive time missing.
MergeSpeedup_left(algo_data, naive_data) ==
  Concat([i \in DOMAIN algo_data |->
    LET hits == SelectSeq(naive_data, LAMBDA r : r.Size = algo_data[i].Size)
    IN IF hits = <<>>
       THEN <<[x |-> algo_data[i].Size, cat |-> <<>>, y |-> NaN]>>
       ELSE [j \in DOMAIN hits |->
               [x |-> algo_data[i].Size, cat |-> <<>>,
                y |-> FracDiv(hits[j].Value, algo_data[i].Value)]]])

\* pd.merge(algo_data, naive_data[['Size', value]], on='Size') and the
\* Speedup column: an inner join in the order of the left rows.
MergeSpeedup(algo_data, naive_data) ==
  Concat([i \in DOMAIN algo_data |->
    LET hits == SelectSeq(naive_data, LAMBDA r : r.Size = algo_data[i].Size)
    IN [j \in DOMAIN hits |->
          [x |-> algo_data[i].Size, cat |-> <<>>,
           y |-> FracDiv(hits[j].Value, algo_data[i].Value)]]])

\* The loop without its `continue`: the naive algorithm is merged with
\* itself like any other.
SpeedupSeries_noskip(table, naive_algo, prefix) ==
  LET naive_data == SelectSeq(table, LAMBDA r : r.Algorithm = naive_algo)
      algos == Unique(Column(table, "Algorithm"))
  IN [i \in DOMAIN algos |->
        Series(prefix \o ViewLabel(algos[i]),
               MergeSpeedup(SelectSeq(table, LAMBDA r : r.Algorithm = algos[i]),
                            naive_data))]

\* The loop over the algorithms of a speedup chart: the naive one is
\* skipped, every other one is merged with the naive rows.
SpeedupSeries(table, naive_algo, prefix) ==
  LET naive_data == SelectSeq(table, LAMBDA r : r.Algorithm = naive_algo)
      algos == SelectSeq(Unique(Column(table, "Algorithm")),
                         LAMBDA a : a # naive_algo)
  IN [i \in DOMAIN algos |->
        Series(prefix \o ViewLabel(algos[i]),
               MergeSpeedup(SelectSeq(table, LAMBDA r : r.Algorithm = algos[i]),
                            naive_data))]

NaiveOf(g) == IF g = "Closest Pair" THEN CLOSEST_PAIR_NAIVE ELSE DIAMETER_NAIVE

----------------------------------------------------------------------------
(* The six standalone views.                                               *)

ComplexityFigs(rows, dimension, g) ==
  LET group_data == SelectSeq(rows,
        LAMBDA r : r.Dimension = dimension /\ r.AlgorithmGroup = g)
      plot_data == GroupBy(group_data, <<"Algorithm", "Size">>, "Time")
  IN IF group_data = <<>> THEN <<>>
     ELSE <<Figure(File("complexity", DimLabel(dimension), GroupFile(g), <<>>),
                   <<>>,
                   <<Axis(AlgoSeries(plot_data), NoRef, 0),
                     Axis(AlgoSeries(plot_data), RefLines(plot_data), 0)>>)>>

plot_time_complexity_by_dimension(d) ==
  IF "Dimension" \notin d.columns THEN Raise
  ELSE Ok(Concat([k \in DOMAIN Combos |->
            ComplexityFigs(d.rows, Combos[k][1], Combos[k][2])]))

\* The loop body without its `continue`: an empty group reaches the bar
\* plot, which raises on an empty table.
DistributionFigs_noskip(grouped, max_size, dimension, g) ==
  LET group_data == SelectSeq(grouped,
        LAMBDA r : r.Dimension = dimension /\ Contains(r.Algorithm, MarkerOf(g)))
  IN IF group_data = <<>> \/ PivotRaises(group_data, "Algorithm", "Distribution")
     THEN Raise
     ELSE Ok(<<Figure(File("distributions", DimLabel(dimension), GroupFile(g), <<>>),
                      <<>>,
                      <<Axis(BarSeries(group_data), NoRef, max_size)>>)>>)

DistributionFigs(grouped, max_size, dimension, g) ==
  LET group_data == SelectSeq(grouped,
        LAMBDA r : r.Dimension = dimension /\ Contains(r.Algorithm, MarkerOf(g)))
  IN IF group_data = <<>> THEN Ok(<<>>)
     ELSE IF PivotRaises(group_data, "Algorithm", "Distribution") THEN Raise
     ELSE Ok(<<Figure(File("distributions", DimLabel(dimension), GroupFile(g), <<>>),
                      <<>>,
                      <<Axis(BarSeries(group_data), NoRef, max_size)>>)>>)

plot_distribution_comparison(d) ==
  IF ~({"Dimension", "Distribution"} \subseteq d.columns) THEN Raise
  ELSE LET largest_data == LargestData(d.rows)
           grouped == GroupBy(largest_data,
                        <<"Algorithm", "Dimension", "Distribution">>, "Time")
       IN CombineSteps([k \in DOMAIN Combos |->
            DistributionFigs(grouped, MaxSizeOf(d.rows),
                             Combos[k][1], Combos[k][2])])

MemoryFigs(grouped, dimension, g) ==
  LET group_data == SelectSeq(grouped,
        LAMBDA r : r.Dimension = dimension /\ Contains(r.Algorithm, MarkerOf(g)))
  IN IF group_data = <<>> THEN <<>>
     ELSE <<Figure(File("memory", DimLabel(dimension), GroupFile(g), <<>>),
                   <<>>,
                   <<Axis(AlgoSeries(group_data), NoRef, 0)>>)>>

plot_memory_usage(d) ==
  IF "Dimension" \notin d.columns THEN Raise
  ELSE LET grouped == GroupBy(d.rows, <<"Algorithm", "Dimension", "Size">>, "Mem")
       IN Ok(Concat([k \in DOMAIN Combos |->
               MemoryFigs(grouped, Combos[k][1], Combos[k][2])]))

DimensionFig(grouped, algo) ==
  LET algo_data == SelectSeq(grouped, LAMBDA r : r.Algorithm = algo)
      present == SelectSeq(Dimensions,
        LAMBDA dm : \E i \in DOMAIN algo_data : algo_data[i].Dimension = dm)
  IN Figure(File("dimension_comparison", <<>>, "", algo),
            algo_data[1].AlgorithmName,
            <<Axis([k \in DOMAIN present |->
                      Series(DimLabel(present[k]),
                             SizePoints(SelectSeq(algo_data,
                               LAMBDA r : r.Dimension = present[k])))],
                   NoRef, 0)>>)

plot_dimension_comparison(d) ==
  IF "Dimension" \notin d.columns THEN Raise
  ELSE LET grouped == GroupBy(d.rows,
             <<"Algorithm", "AlgorithmName", "Dimension", "Size">>, "Time")
           algos == Unique(Column(grouped, "Algorithm"))
       IN Ok([i \in DOMAIN algos |-> DimensionFig(grouped, algos[i])])

HeatmapFigs(grouped, dimension, g) ==
  LET group_data == SelectSeq(grouped,
        LAMBDA r : r.Dimension = dimension /\ Contains(r.Algorithm, MarkerOf(g)))
  IN IF group_data = <<>> THEN Ok(<<>>)
     ELSE IF PivotRaises(group_data, "Size", "AlgorithmName") THEN Raise
     ELSE Ok(<<Figure(File("heatmap", DimLabel(dimension), GroupFile(g), <<>>),
                      <<>>,
                      <<Axis(HeatSeries(group_data), NoRef, 0)>>)>>)

plot_performance_heatmap(d) ==
  IF ~({"Dimension", "Distribution"} \subseteq d.columns) THEN Raise
  ELSE LET uniform_data == SelectSeq(d.rows, LAMBDA r : r.Distribution = UNIFORM)
           grouped == GroupBy(uniform_data,
             <<"Algorithm", "AlgorithmName", "Dimension", "Size">>, "Time")
       IN CombineSteps([k \in DOMAIN Combos |->
            HeatmapFigs(grouped, Combos[k][1], Combos[k][2])])

SpeedupFigs(grouped, dimension, g) ==
  LET group_data == SelectSeq(grouped,
        LAMBDA r : r.Dimension = dimension /\ Contains(r.Algorithm, MarkerOf(g)))
      dists == Unique(Column(group_data, "Distribution"))
  IN IF \/ group_data = <<>>
        \/ ~\E i \in DOMAIN group_data : group_data[i].Algorithm = NaiveOf(g)
     THEN <<>>
     ELSE [k \in DOMAIN dists |->
            Figure(File("speedup", DimLabel(dimension), GroupFile(g), dists[k]),
                   <<>>,
                   <<Axis(SpeedupSeries(
                            SelectSeq(group_data,
                              LAMBDA r : r.Distribution = dists[k]),
                            NaiveOf(g), <<>>),
                          NoRef, 0)>>)]

plot_relative_speedup(d) ==
  IF ~({"Dimension", "Distribution"} \subseteq d.columns) THEN Raise
  ELSE LET grouped == GroupBy(d.rows,
             <<"Algorithm", "AlgorithmName", "Dimension", "Size", "Distribution">>,
             "Time")
       IN Ok(Concat([k \in DOMAIN Combos |->
               SpeedupFigs(grouped, Combos[k][1], Combos[k][2])]))

----------------------------------------------------------------------------
(* The dashboard: eight panels drawn on one figure, saved at the end.      *)

PanelOk(axis) == [raised |-> FALSE, axis |-> axis]
PanelRaise == [raised |-> TRUE, axis |-> Axis(<<>>, NoRef, 0)]

\* min(plot_data['Size']) raises ValueError on an empty table.
plot_time_complexity_dashboard(d, dimension, g) ==
  IF "Dimension" \notin d.columns THEN PanelRaise
  ELSE LET group_data == SelectSeq(d.rows,
             LAMBDA r : r.Dimension = dimension
                        /\ Contains(r.Algorithm, MarkerOf(g)))
           plot_data == GroupBy(group_data, <<"Algorithm", "Size">>, "Time")
       IN IF plot_data = <<>> THEN PanelRaise
          ELSE PanelOk(Axis(AlgoSeries(plot_data), RefLines(plot_data), 0))

\* pivot_data.plot(kind='bar') raises TypeError on an empty table.
plot_distribution_dashboard(d, dimension, g) ==
  IF ~({"Dimension", "Distribution"} \subseteq d.columns) THEN PanelRaise
  ELSE LET group_data == SelectSeq(LargestData(d.rows),
             LAMBDA r : r.Dimension = dimension
                        /\ Contains(r.Algorithm, MarkerOf(g)))
           grouped == GroupBy(group_data, <<"Algorithm", "Distribution">>, "Time")
       IN IF grouped = <<>> \/ PivotRaises(grouped, "Algorithm", "Distribution")
          THEN PanelRaise
          ELSE PanelOk(Axis(BarSeries(grouped), NoRef, MaxSizeOf(d.rows)))

plot_speedup_dashboard(d, dimension) ==
  IF ~({"Dimension", "Distribution"} \subseteq d.columns) THEN PanelRaise
  ELSE LET uniform_data == SelectSeq(d.rows,
             LAMBDA r : r.Dimension = dimension /\ r.Distribution = UNIFORM)
           grouped == GroupBy(uniform_data,
                        <<"Algorithm", "AlgorithmName", "Size">>, "Time")
           cp_data == SelectSeq(grouped,
                        LAMBDA r : Contains(r.Algorithm, CLOSEST_PAIR))
           dm_data == SelectSeq(grouped,
                        LAMBDA r : Contains(r.Algorithm, DIAMETER))
       IN PanelOk(Axis(
            SpeedupSeries(cp_data, CLOSEST_PAIR_NAIVE, <<"C", "P", ":", " ">>)
              \o SpeedupSeries(dm_data, DIAMETER_NAIVE, <<"D", "M", ":", " ">>),
            NoRef, 0))

DashboardPanels(d) ==
  <<plot_time_complexity_dashboard(d, TWO_D, "Closest Pair"),
    plot_time_complexity_dashboard(d, THREE_D, "Closest Pair"),
    plot_time_complexity_dashboard(d, TWO_D, "Diameter"),
    plot_time_complexity_dashboard(d, THREE_D, "Diameter"),
    plot_distribution_dashboard(d, TWO_D, "Closest Pair"),
    plot_distribution_dashboard(d, THREE_D, "Closest Pair"),
    plot_speedup_dashboard(d, TWO_D),
    plot_speedup_dashboard(d, THREE_D)>>

\* The figure is saved only when every panel returned.
create_unified_dashboard(d) ==
  LET panels == DashboardPanels(d)
  IN IF \E k \in DOMAIN panels : panels[k].raised THEN Raise
     ELSE Ok(<<Figure(File("dashboard", <<>>, "", <<>>), <<>>,
                      [k \in DOMAIN panels |-> panels[k].axis])>>)

----------------------------------------------------------------------------
(* main(): control flow of the single try/except.                          *)

ViewOrder ==
  <<"complexity", "distribution", "memory", "dimension", "heatmap",
    "speedup", "dashboard">>

ViewIndex(v) == CHOOSE i \in DOMAIN ViewOrder : ViewOrder[i] = v

\* main() running the views although the load raised.
AfterLoad_ignore(failed) == ViewOrder[1]

\* Where main() goes after load_and_prepare_data: an exception leaves the
\* try block for the except clause.
AfterLoad(failed) == IF failed THEN "done" ELSE ViewOrder[1]

\* main() with a try/except around each view: the next view runs whether
\* or not this one raised.
AfterView_continue(v, hasRaised) ==
  IF ViewIndex(v) = Len(ViewOrder) THEN "done" ELSE ViewOrder[ViewIndex(v) + 1]

\* Where main() goes after a view: the next call of the try block, or the
\* except clause when the view raised.
AfterView(v, hasRaised) ==
  IF hasRaised \/ ViewIndex(v) = Len(ViewOrder) THEN "done"
  ELSE ViewOrder[ViewIndex(v) + 1]

Load ==
  /\ pc = "load"
  /\ loadFailed' = LoadRaises(input)
  /\ df' = IF LoadRaises(input) THEN NoFrame ELSE load_and_prepare_data(input)
  /\ pc' = AfterLoad(LoadRaises(input))
  /\ UNCHANGED <<input, rendered, attempted, raised>>

\* One call of the try block: view v has run on df with the given result,
\* the figures it saved before returning or raising are on disk.
RunView(v, result) ==
  /\ pc = v
  /\ attempted' = Append(attempted, v)
  /\ rendered' = rendered \o result.figs
  /\ raised' = IF result.raised THEN v ELSE raised
  /\ pc' = AfterView(v, result.raised)
  /\ UNCHANGED <<input, df, loadFailed>>

PlotTimeComplexity == RunView("complexity", plot_time_complexity_by_dimension(df))
PlotDistribution == RunView("distribution", plot_distribution_comparison(df))
PlotMemory == RunView("memory", plot_memory_usage(df))
PlotDimension == RunView("dimension", plot_dimension_comparison(df))
PlotHeatmap == RunView("heatmap", plot_performance_heatmap(df))
PlotSpeedup == RunView("speedup", plot_relative_speedup(df))
PlotDashboard == RunView("dashboard", create_unified_dashboard(df))

Next ==
  \/ Load
  \/ PlotTimeComplexity
  \/ PlotDistribution
  \/ PlotMemory
  \/ PlotDimension
  \/ PlotHeatmap
  \/ PlotSpeedup
  \/ PlotDashboard

----------------------------------------------------------------------------
(* Inputs of a run.  A well-formed file holds up to MaxRows rows drawn     *)
(* from the measurements below (2 ms, 7 MB each), alone or after four      *)
(* naive rows (10 ms, 5 MB each) that cover both dimensions and both       *)
(* algorithm groups at the largest size.  An ill-formed file is missing,   *)
(* lacks columns, or has one unparsable cell.                              *)

MaxRows == 2

Sizes == {50, 100}
Measurements == {<<2, 7>>}
RowAlgorithms == {CLOSEST_PAIR_NAIVE, CLOSEST_PAIR_KDTREE, DIAMETER_QUICKHULL}
RowDistributions == {UNIFORM, CLUSTERED}

RowUniverse ==
  {RawRow(a, dm, Num(sz), ds, Num(m[1]), Num(m[2])) :
     a \in RowAlgorithms, dm \in Range(Dimensions), sz \in Sizes,
     ds \in RowDistributions, m \in Measurements}

Coverage ==
  <<RawRow(CLOSEST_PAIR_NAIVE, TWO_D, Num(100), UNIFORM, Num(10), Num(5)),
    RawRow(CLOSEST_PAIR_NAIVE, THREE_D, Num(100), UNIFORM, Num(10), Num(5)),
    RawRow(DIAMETER_NAIVE, TWO_D, Num(100), UNIFORM, Num(10), Num(5)),
    RawRow(DIAMETER_NAIVE, THREE_D, Num(100), UNIFORM, Num(10), Num(5))>>

RowSeqs == UNION {[1..k -> RowUniverse] : k \in 0..MaxRows}

GoodInputs ==
  {[exists |-> TRUE, columns |-> CsvColumns, rows |-> base \o extra] :
     base \in {<<>>, Coverage}, extra \in RowSeqs}

BadCellRows ==
  {[Coverage EXCEPT ![i][f] = NotANumber] :
     i \in DOMAIN Coverage, f \in {"Size", "Time", "Mem"}}

FaultyInputs ==
  {[exists |-> FALSE, columns |-> CsvColumns, rows |-> Coverage]}
  \cup {[exists |-> TRUE, columns |-> cs, rows |-> Coverage] :
          cs \in (SUBSET CsvColumns) \ {CsvColumns}}
  \cup {[exists |-> TRUE, columns |-> CsvColumns, rows |-> rs] :
          rs \in BadCellRows}

Init ==
  /\ input \in GoodInputs \cup FaultyInputs
  /\ df = NoFrame
  /\ pc = "load"
  /\ rendered = <<>>
  /\ attempted = <<>>
  /\ raised = "none"
  /\ loadFailed = FALSE

Spec == Init /\ [][Next]_vars

----------------------------------------------------------------------------
(* Inputs of the derivation check: one-row files whose algorithm id is any *)
(* id of up to MaxTokens tokens.                                           *)

MaxTokens == 4

CLOSEST == <<"C","L","O","S","E","S","T">>
PAIR == <<"P","A","I","R">>
XCLOSEST == <<"X">> \o CLOSEST
PAIRS == PAIR \o <<"S">>

IdTokens == {CLOSEST, PAIR, DIAMETER, NAIVE, KDTREE, XCLOSEST, PAIRS}

KnownIds == {e[1] : e \in algorithm_names}

TokenSeqs(n) == UNION {[1..k -> IdTokens] : k \in 1..n}

DeriveIds == KnownIds \cup {Join(ts) : ts \in TokenSeqs(MaxTokens)}

InitDerive ==
  /\ \E a \in DeriveIds :
       input = [exists |-> TRUE, columns |-> CsvColumns,
                rows |-> <<RawRow(a, TWO_D, Num(100), UNIFORM, Num(10), Num(5))>>]
  /\ df = NoFrame
  /\ pc = "load"
  /\ rendered = <<>>
  /\ attempted = <<>>
  /\ raised = "none"
  /\ loadFailed = FALSE

SpecDerive == InitDerive /\ [][Next]_vars

----------------------------------------------------------------------------
(* Properties of the derived fields, checked under SpecDerive.             *)

Loaded == pc # "load" /\ ~loadFailed

\* x = pre \o marker \o suf for some pre and suf.
HasMarker(x, marker) ==
  \E pre \in 0..Len(x) :
    /\ pre + Len(marker) <= Len(x)
    /\ \A k \in 1..Len(marker) : x[pre + k] = marker[k]

FiguresOf(kind) == SelectSeq(rendered, LAMBDA f : f.file.kind = kind)

\* C9: for every loaded record the derived group is Closest Pair exactly
\* when the id contains CLOSEST_PAIR and is Diameter otherwise, so every id
\* has exactly one of the two groups, also an id with neither marker.
C9_GroupIffMarker ==
  Loaded =>
    \A i \in DOMAIN df.rows :
      /\ df.rows[i].AlgorithmGroup \in {"Closest Pair", "Diameter"}
      /\ (df.rows[i].AlgorithmGroup = "Closest Pair")
           <=> HasMarker(df.rows[i].Algorithm, CLOSEST_PAIR)
      /\ (df.rows[i].AlgorithmGroup = "Diameter")
           <=> ~HasMarker(df.rows[i].Algorithm, CLOSEST_PAIR)

\* A loaded record whose id holds neither marker and is grouped as Diameter.
C9_Witness ==
  /\ Loaded
  /\ \E i \in DOMAIN df.rows :
       /\ ~HasMarker(df.rows[i].Algorithm, CLOSEST_PAIR)
       /\ ~HasMarker(df.rows[i].Algorithm, DIAMETER)
       /\ df.rows[i].AlgorithmGroup = "Diameter"

\* C10: the name stored by the loader is the table's label for each of the
\* seven ids of the table and the raw id for every other id, and the label
\* the views look up in the global table is that stored name: the series
\* label of the complexity chart equals the title name of the dimension
\* comparison chart of the same record.
C10_DisplayName ==
  Loaded =>
    /\ \A i \in DOMAIN df.rows :
         LET a == df.rows[i].Algorithm
             name == df.rows[i].AlgorithmName
         IN /\ a = CLOSEST_PAIR_NAIVE => name = LabelNaive
            /\ a = CLOSEST_PAIR_EFFICIENT => name = LabelDivide
            /\ a = CLOSEST_PAIR_KDTREE => name = LabelKDTree
            /\ a = CLOSEST_PAIR_ADAPTIVE => name = LabelAdaptive
            /\ a = DIAMETER_NAIVE => name = LabelNaive
            /\ a = DIAMETER_CONCURRENT => name = LabelConcurrent
            /\ a = DIAMETER_QUICKHULL => name = LabelQuickHull
            /\ a \notin KnownIds => name = a
            /\ ViewLabel(a) = name
    /\ \A i \in DOMAIN FiguresOf("complexity") :
         \A j \in DOMAIN FiguresOf("dimension_comparison") :
           \A k \in DOMAIN FiguresOf("complexity")[i].axes[1].series :
             FiguresOf("complexity")[i].axes[1].series[k].label
               = FiguresOf("dimension_comparison")[j].title

\* A record outside the table whose complexity and dimension comparison
\* charts are both drawn.
C10_Witness ==
  /\ Loaded
  /\ df.rows # <<>>
  /\ df.rows[1].Algorithm \notin KnownIds
  /\ df.rows[1].AlgorithmName = df.rows[1].Algorithm
  /\ FiguresOf("complexity") # <<>>
  /\ FiguresOf("dimension_comparison") # <<>>
  /\ FiguresOf("dimension_comparison")[1].title = df.rows[1].Algorithm

----------------------------------------------------------------------------
(* Properties of a run, checked under Spec.                                *)

Done == pc = "done"

ViewDone(v) == v \in Range(attempted) /\ raised # v

WellFormed == input.columns = CsvColumns

\* The views called so far are the first ones of the fixed sequence.
AttemptedIsPrefix ==
  /\ Len(attempted) <= Len(ViewOrder)
  /\ attempted = SubSeq(ViewOrder, 1, Len(attempted))

\* C3 as stated: an exception in a view never keeps the next view of the
\* sequence from being called, so a finished run that loaded its data has
\* called all seven views.
C3_Original ==
  (Done /\ Loaded) =>
    \A k \in 1..(Len(ViewOrder) - 1) :
      ViewOrder[k] \in Range(attempted) => ViewOrder[k + 1] \in Range(attempted)

\* C3 amended: a standalone view that finds no data for a dimension/group
\* skips that dimension/group without raising, so on a file with all its
\* columns the run reaches the dashboard; an exception raised by a view is
\* caught by the one try/except of main(), which ends the run: the view that
\* raised is the last one called.
C3_ErrorEndsRun ==
  /\ Loaded => AttemptedIsPrefix
  /\ raised # "none" =>
       /\ Done
       /\ attempted # <<>>
       /\ attempted[Len(attempted)] = raised
  /\ (Done /\ Loaded /\ raised = "none") => attempted = ViewOrder
  /\ (Done /\ Loaded /\ WellFormed) =>
       /\ raised \in {"none", "dashboard"}
       /\ attempted = ViewOrder

\* The distribution view raised after the complexity view had saved its
\* charts, and the memory view was never called.
C3_Witness ==
  /\ Done
  /\ raised = "distribution"
  /\ FiguresOf("complexity") # <<>>
  /\ "memory" \notin Range(attempted)

----------------------------------------------------------------------------
(* The records of the loaded dataset, read directly.                       *)

AllAlgos == {df.rows[i].Algorithm : i \in DOMAIN df.rows}
AllSizes == {df.rows[i].Size : i \in DOMAIN df.rows}
AllDists == {df.rows[i].Distribution : i \in DOMAIN df.rows}
AllDims == Range(Dimensions)
AllGroups == Range(AlgoGroups)

\* The records of algorithm a, dimension dm and distribution ds at size s.
Recs(a, dm, s, ds) ==
  {i \in DOMAIN df.rows :
     /\ df.rows[i].Algorithm = a
     /\ df.rows[i].Dimension = dm
     /\ df.rows[i].Size = s
     /\ df.rows[i].Distribution = ds}

RECURSIVE SumField(_, _)
SumField(I, f) ==
  IF I = {} THEN 0
  ELSE LET i == CHOOSE j \in I : TRUE
       IN df.rows[i][f] + SumField(I \ {i}, f)

\* The arithmetic mean of field f over the records I.
MeanOf(I, f) == Frac(SumField(I, f), Cardinality(I))

One == [n |-> 1, d |-> 1]

\* The algorithms of a group other than its naive baseline.
Candidates(g) ==
  {a \in AllAlgos : HasMarker(a, MarkerOf(g)) /\ a # NaiveOf(g)}

\* mean(baseline) / mean(a) over the records of one dimension, distribution
\* and size.
ExpectedSpeedup(a, g, dm, s, ds) ==
  Frac(SumField(Recs(NaiveOf(g), dm, s, ds), "Time") * Cardinality(Recs(a, dm, s, ds)),
       Cardinality(Recs(NaiveOf(g), dm, s, ds)) * SumField(Recs(a, dm, s, ds), "Time"))

BothMeasured(a, g, dm, s, ds) ==
  Recs(a, dm, s, ds) # {} /\ Recs(NaiveOf(g), dm, s, ds) # {}

\* The places <<figure, axis, series, point>> of the rendered output where
\* file file, axis k, holds a point of a series labelled label at size s.
Entries(file, k, label, s) ==
  {e \in UNION {UNION {{<<i, j, q>> : q \in DOMAIN rendered[i].axes[k].series[j].points} :
                         j \in DOMAIN rendered[i].axes[k].series} :
                  i \in {i \in DOMAIN rendered :
                           rendered[i].file = file /\ k \in DOMAIN rendered[i].axes}} :
     /\ rendered[e[1]].axes[k].series[e[2]].label = label
     /\ rendered[e[1]].axes[k].series[e[2]].points[e[3]].x = s}

EntryValue(k, e) == rendered[e[1]].axes[k].series[e[2]].points[e[3]].y

SpeedupFile(dm, g, ds) == File("speedup", DimLabel(dm), GroupFile(g), ds)
DashboardFile == File("dashboard", <<>>, "", <<>>)

\* The dashboard's speedup panel of a dimension and its label prefix of a
\* group.
DashAxis(dm) == IF dm = TWO_D THEN 7 ELSE 8
DashPrefix(g) ==
  IF g = "Closest Pair" THEN <<"C", "P", ":", " ">> ELSE <<"D", "M", ":", " ">>

\* C1: wherever a non-baseline algorithm of a group and the group's naive
\* baseline both have records of one dimension and distribution at a size,
\* the speedup chart of that dimension, group and distribution (and, for
\* UNIFORM, the dashboard's speedup panel) holds for that algorithm and size
\* the value mean(baseline times) / mean(algorithm times), the means taken
\* over the records of that dimension and distribution only.
C1_SpeedupIsRatioOfMeans ==
  \A dm \in AllDims, g \in AllGroups, ds \in AllDists :
    \A a \in Candidates(g), s \in AllSizes :
      BothMeasured(a, g, dm, s, ds) =>
        /\ ViewDone("speedup") =>
             /\ Entries(SpeedupFile(dm, g, ds), 1, ViewLabel(a), s) # {}
             /\ \A e \in Entries(SpeedupFile(dm, g, ds), 1, ViewLabel(a), s) :
                  EntryValue(1, e) = ExpectedSpeedup(a, g, dm, s, ds)
        /\ (ViewDone("dashboard") /\ ds = UNIFORM) =>
             /\ Entries(DashboardFile, DashAxis(dm),
                        DashPrefix(g) \o ViewLabel(a), s) # {}
             /\ \A e \in Entries(DashboardFile, DashAxis(dm),
                                 DashPrefix(g) \o ViewLabel(a), s) :
                  EntryValue(DashAxis(dm), e) = ExpectedSpeedup(a, g, dm, s, ds)

\* The run is over, the dashboard was saved, and both its 2D panel and the
\* 2D UNIFORM speedup chart show KD-Tree at 10 ms / 2 ms = 5.
C1_Witness ==
  /\ Done
  /\ ViewDone("dashboard")
  /\ \E s \in AllSizes :
       /\ BothMeasured(CLOSEST_PAIR_KDTREE, "Closest Pair", TWO_D, s, UNIFORM)
       /\ ExpectedSpeedup(CLOSEST_PAIR_KDTREE, "Closest Pair", TWO_D, s, UNIFORM)
            = [n |-> 5, d |-> 1]
       /\ \E e \in Entries(DashboardFile, 7,
                           DashPrefix("Closest Pair") \o LabelKDTree, s) :
            EntryValue(7, e) = [n |-> 5, d |-> 1]
       /\ \E e \in Entries(SpeedupFile(TWO_D, "Closest Pair", UNIFORM), 1,
                           LabelKDTree, s) :
            EntryValue(1, e) = [n |-> 5, d |-> 1]

\* C2: a speedup chart holds exactly one entry for an algorithm and a size
\* at which the algorithm and the baseline both have a record of the
\* chart's dimension and distribution, and none for any other size; every
\* point of a speedup chart is such an entry.
C2_InnerJoinOnSize ==
  /\ \A dm \in AllDims, g \in AllGroups, ds \in AllDists :
       \A a \in Candidates(g), s \in AllSizes :
         /\ ViewDone("speedup") =>
              Cardinality(Entries(SpeedupFile(dm, g, ds), 1, ViewLabel(a), s))
                = IF BothMeasured(a, g, dm, s, ds) THEN 1 ELSE 0
         /\ (ViewDone("dashboard") /\ ds = UNIFORM) =>
              Cardinality(Entries(DashboardFile, DashAxis(dm),
                                  DashPrefix(g) \o ViewLabel(a), s))
                = IF BothMeasured(a, g, dm, s, ds) THEN 1 ELSE 0
  /\ \A i \in DOMAIN rendered :
       rendered[i].file.kind = "speedup" =>
         \A j \in DOMAIN rendered[i].axes[1].series :
           \A q \in DOMAIN rendered[i].axes[1].series[j].points :
             \E dm \in AllDims, g \in AllGroups :
               /\ rendered[i].file = SpeedupFile(dm, g, rendered[i].file.tag)
               /\ \E a \in Candidates(g) :
                    /\ rendered[i].axes[1].series[j].label = ViewLabel(a)
                    /\ BothMeasured(a, g, dm,
                         rendered[i].axes[1].series[j].points[q].x,
                         rendered[i].file.tag)

\* KD-Tree and the baseline share one size, KD-Tree alone has a second one:
\* the chart holds the shared size only.
C2_Witness ==
  /\ ViewDone("speedup")
  /\ \E dm \in AllDims, ds \in AllDists, s1, s2 \in AllSizes :
       /\ BothMeasured(CLOSEST_PAIR_KDTREE, "Closest Pair", dm, s1, ds)
       /\ Recs(CLOSEST_PAIR_KDTREE, dm, s2, ds) # {}
       /\ Recs(CLOSEST_PAIR_NAIVE, dm, s2, ds) = {}
       /\ Entries(SpeedupFile(dm, "Closest Pair", ds), 1, LabelKDTree, s1) # {}
       /\ Entries(SpeedupFile(dm, "Closest Pair", ds), 1, LabelKDTree, s2) = {}

\* C8 as stated: the speedup chart holds, for the baseline itself, an entry
\* of ratio 1 at every size at which the baseline has a record.
C8_Original ==
  ViewDone("speedup") =>
    \A dm \in AllDims, g \in AllGroups, ds \in AllDists, s \in AllSizes :
      Recs(NaiveOf(g), dm, s, ds) # {} =>
        \E e \in Entries(SpeedupFile(dm, g, ds), 1, ViewLabel(NaiveOf(g)), s) :
          EntryValue(1, e) = One

\* The baseline rows of one dimension and distribution as the speedup view
\* aggregates them.
NaiveRows(g, dm, ds) ==
  SelectSeq(GroupBy(df.rows,
              <<"Algorithm", "AlgorithmName", "Dimension", "Size", "Distribution">>,
              "Time"),
            LAMBDA r : r.Algorithm = NaiveOf(g) /\ r.Dimension = dm
                       /\ r.Distribution = ds)

\* C8 amended: the speedup views skip the baseline, so no speedup chart and
\* no dashboard panel holds a series for it; the merge and division the
\* views apply to every other algorithm give, on the baseline's own rows,
\* the ratio 1 once for every size at which the baseline has a record (of
\* non-zero mean time).
C8_BaselineSkipped ==
  /\ \A i \in DOMAIN rendered :
       /\ rendered[i].file.kind = "speedup" =>
            \A j \in DOMAIN rendered[i].axes[1].series :
              rendered[i].axes[1].series[j].label # LabelNaive
       /\ rendered[i].file.kind = "dashboard" =>
            \A k \in {7, 8} : \A j \in DOMAIN rendered[i].axes[k].series :
              \A g \in AllGroups :
                rendered[i].axes[k].series[j].label # DashPrefix(g) \o LabelNaive
  /\ ViewDone("speedup") =>
       \A dm \in AllDims, g \in AllGroups, ds \in AllDists :
         LET merged == MergeSpeedup(NaiveRows(g, dm, ds), NaiveRows(g, dm, ds))
         IN /\ \A q \in DOMAIN merged : merged[q].y = One
            /\ \A s \in AllSizes :
                 Cardinality({q \in DOMAIN merged : merged[q].x = s})
                   = IF Recs(NaiveOf(g), dm, s, ds) # {} THEN 1 ELSE 0

\* A speedup chart was drawn for a group whose baseline has records, and
\* the dashboard was saved.
C8_Witness ==
  /\ Done
  /\ ViewDone("dashboard")
  /\ FiguresOf("speedup") # <<>>
  /\ \E s \in AllSizes :
       /\ Recs(CLOSEST_PAIR_NAIVE, TWO_D, s, UNIFORM) # {}
       /\ Entries(SpeedupFile(TWO_D, "Closest Pair", UNIFORM), 1, LabelNaive, s) = {}

----------------------------------------------------------------------------
(* The size filter of the distribution and heatmap views.                  *)

\* The largest size of the whole dataset.
GlobalMax == IF AllSizes = {} THEN 0 ELSE SetMax(AllSizes)

InGroup(a, g) == HasMarker(a, MarkerOf(g))

DistFile(dm, g) == File("distributions", DimLabel(dm), GroupFile(g), <<>>)
HeatFile(dm, g) == File("heatmap", DimLabel(dm), GroupFile(g), <<>>)

FilesAt(file) == {i \in DOMAIN rendered : rendered[i].file = file}

\* The places <<figure, series, bar>> where file file, axis k, holds the bar
\* of algorithm a in the series of distribution ds.
Bars(file, k, ds, a) ==
  {e \in UNION {UNION {{<<i, j, q>> : q \in DOMAIN rendered[i].axes[k].series[j].points} :
                         j \in DOMAIN rendered[i].axes[k].series} :
                  i \in FilesAt(file)} :
     /\ rendered[e[1]].axes[k].series[e[2]].label = ds
     /\ rendered[e[1]].axes[k].series[e[2]].points[e[3]].cat = a}

\* Axis k of file file shows, for the algorithms of group g in dimension dm,
\* the mean time of the records at the global maximum size and of no others.
BarsFromGlobalMax(file, k, dm, g) ==
  /\ \A i \in FilesAt(file) : rendered[i].axes[k].n = GlobalMax
  /\ \A a \in AllAlgos, ds \in AllDists :
       LET at_max == Recs(a, dm, GlobalMax, ds)
           bars == Bars(file, k, ds, a)
       IN /\ ~InGroup(a, g) => bars = {}
          /\ (InGroup(a, g) /\ at_max # {}) => Cardinality(bars) = 1
          /\ \A e \in bars :
               EntryValue(k, e) = IF at_max # {} THEN MeanOf(at_max, "Time") ELSE NaN

\* Group g has, in dimension dm, a record at the global maximum size.
MeasuredAtGlobalMax(dm, g) ==
  \E a \in AllAlgos, ds \in AllDists :
    InGroup(a, g) /\ Recs(a, dm, GlobalMax, ds) # {}

\* The distribution views, standalone and on the dashboard, read the
\* records at the global maximum size only; a dimension/group without such
\* a record gets no standalone chart, and the dashboard is not saved when
\* one of its two distribution panels is in that case.
DistributionAtGlobalMax ==
  /\ ViewDone("distribution") =>
       \A dm \in AllDims, g \in AllGroups :
         /\ Cardinality(FilesAt(DistFile(dm, g)))
              = IF MeasuredAtGlobalMax(dm, g) THEN 1 ELSE 0
         /\ BarsFromGlobalMax(DistFile(dm, g), 1, dm, g)
  /\ ViewDone("dashboard") =>
       /\ MeasuredAtGlobalMax(TWO_D, "Closest Pair")
       /\ MeasuredAtGlobalMax(THREE_D, "Closest Pair")
       /\ BarsFromGlobalMax(DashboardFile, 5, TWO_D, "Closest Pair")
       /\ BarsFromGlobalMax(DashboardFile, 6, THREE_D, "Closest Pair")

\* C5 as stated: the distribution views and the heatmaps hold records of
\* the global maximum size only.
C5_Original ==
  /\ DistributionAtGlobalMax
  /\ ViewDone("heatmap") =>
       \A i \in DOMAIN rendered :
         rendered[i].file.kind = "heatmap" =>
           \A j \in DOMAIN rendered[i].axes[1].series :
             \A q \in DOMAIN rendered[i].axes[1].series[j].points :
               rendered[i].axes[1].series[j].points[q].x = GlobalMax

\* C5 amended: the distribution views (standalone and dashboard) are
\* computed from the records of the global maximum size only, and a
\* dimension/group with no record at that size gets no distribution chart;
\* the heatmap of a dimension/group is computed from its UNIFORM records of
\* every size: one row per size with such a record, each cell the mean
\* time of the algorithm's UNIFORM records at that size.
C5_MaxSizeForDistributionOnly ==
  /\ DistributionAtGlobalMax
  /\ ViewDone("heatmap") =>
       \A dm \in AllDims, g \in AllGroups :
         /\ Cardinality(FilesAt(HeatFile(dm, g)))
              = IF \E a \in AllAlgos, s \in AllSizes :
                     InGroup(a, g) /\ Recs(a, dm, s, UNIFORM) # {}
                THEN 1 ELSE 0
         /\ \A a \in AllAlgos, s \in AllSizes :
              InGroup(a, g) =>
                LET cells == Entries(HeatFile(dm, g), 1, ViewLabel(a), s)
                    recs == Recs(a, dm, s, UNIFORM)
                IN /\ recs # {} => Cardinality(cells) = 1
                   /\ \A e \in cells :
                        EntryValue(1, e) = IF recs # {} THEN MeanOf(recs, "Time")
                                           ELSE NaN
         /\ \A i \in FilesAt(HeatFile(dm, g)) :
              \A j \in DOMAIN rendered[i].axes[1].series :
                \A q \in DOMAIN rendered[i].axes[1].series[j].points :
                  \E a \in AllAlgos :
                    /\ InGroup(a, g)
                    /\ Recs(a, dm, rendered[i].axes[1].series[j].points[q].x,
                            UNIFORM) # {}

\* A dimension/group with records below the global maximum only has no
\* distribution chart, and its heatmap holds a cell below the global
\* maximum.
C5_Witness ==
  /\ ViewDone("distribution")
  /\ ViewDone("heatmap")
  /\ \E dm \in AllDims, s \in AllSizes :
       /\ s < GlobalMax
       /\ Recs(CLOSEST_PAIR_KDTREE, dm, s, UNIFORM) # {}
       /\ ~MeasuredAtGlobalMax(dm, "Closest Pair")
       /\ FilesAt(DistFile(dm, "Closest Pair")) = {}
       /\ \E e \in Entries(HeatFile(dm, "Closest Pair"), 1, LabelKDTree, s) :
            EntryValue(1, e) = [n |-> 2, d |-> 1]
       /\ \E dm2 \in AllDims : FilesAt(DistFile(dm2, "Closest Pair")) # {}

----------------------------------------------------------------------------
(* Aggregation by mean.                                                    *)

\* The key lists the views group by.
KeyLists ==
  {<<"Algorithm", "Size">>,
   <<"Algorithm", "Distribution">>,
   <<"Algorithm", "Dimension", "Distribution">>,
   <<"Algorithm", "Dimension", "Size">>,
   <<"Algorithm", "AlgorithmName", "Size">>,
   <<"Algorithm", "AlgorithmName", "Dimension", "Size">>,
   <<"Algorithm", "AlgorithmName", "Dimension", "Size", "Distribution">>}

\* The records that agree with row t on every key column.
Matching(t, keys) ==
  {i \in DOMAIN df.rows : \A k \in DOMAIN keys : df.rows[i][keys[k]] = t[keys[k]]}

\* The value a group of exactly one record must show: the record's own.
OwnValue(I, f) == [n |-> df.rows[CHOOSE i \in I : TRUE][f], d |-> 1]

\* The aggregated table of the dataset for keys and field: a row for a key
\* tuple exactly when a record matches it, one row per tuple, its value the
\* mean over the matching records.
TableIsMeanOfMatching(keys, field) ==
  LET table == GroupBy(df.rows, keys, field)
  IN /\ \A t \in DOMAIN table :
          /\ Matching(table[t], keys) # {}
          /\ table[t].Value = MeanOf(Matching(table[t], keys), field)
          /\ table[t].Value.d # 0
          /\ Cardinality(Matching(table[t], keys)) = 1 =>
               table[t].Value = OwnValue(Matching(table[t], keys), field)
          /\ \A u \in DOMAIN table :
               (\A k \in DOMAIN keys : table[u][keys[k]] = table[t][keys[k]]) => u = t
     /\ \A i \in DOMAIN df.rows :
          \E t \in DOMAIN table : i \in Matching(table[t], keys)

\* The records of algorithm a and dimension dm at size s, of any
\* distribution.
RecsAnyDist(a, dm, s) == UNION {Recs(a, dm, s, ds) : ds \in AllDists}

ComplexityFile(dm, g) == File("complexity", DimLabel(dm), GroupFile(g), <<>>)
MemoryFile(dm, g) == File("memory", DimLabel(dm), GroupFile(g), <<>>)

\* Axis k of file file holds for algorithm a one point per size at which a
\* has a record of dimension dm, none for any other size, and the point is
\* the mean of field f over those records.
CurveIsMean(file, k, a, dm, f) ==
  \A s \in AllSizes :
    LET recs == RecsAnyDist(a, dm, s)
        points == Entries(file, k, ViewLabel(a), s)
    IN /\ Cardinality(points) = IF recs # {} THEN 1 ELSE 0
       /\ \A e \in points :
            /\ EntryValue(k, e) = MeanOf(recs, f)
            /\ Cardinality(recs) = 1 => EntryValue(k, e) = OwnValue(recs, f)

\* C6: for each key list and value field the views use, the aggregated
\* table has a row for a key tuple exactly when a record matches it, the
\* row's value is the arithmetic mean of the field over the matching
\* records, and a group of one record shows that record's value; the
\* complexity and memory charts show these rows and no others: no point for
\* a size without a record.
C6_MeanOverMatching ==
  /\ (Loaded /\ pc = ViewOrder[1]) =>
       \A keys \in KeyLists, field \in {"Time", "Mem"} :
         TableIsMeanOfMatching(keys, field)
  /\ ViewDone("complexity") =>
       \A dm \in AllDims, g \in AllGroups :
         \A a \in {df.rows[i].Algorithm :
                     i \in {j \in DOMAIN df.rows : df.rows[j].AlgorithmGroup = g}} :
           /\ CurveIsMean(ComplexityFile(dm, g), 1, a, dm, "Time")
           /\ CurveIsMean(ComplexityFile(dm, g), 2, a, dm, "Time")
  /\ ViewDone("memory") =>
       \A dm \in AllDims, g \in AllGroups :
         \A a \in {b \in AllAlgos : InGroup(b, g)} :
           CurveIsMean(MemoryFile(dm, g), 1, a, dm, "Mem")

\* The naive closest-pair algorithm has two records at one size, of 10 ms
\* and 2 ms, shown as their mean 6 ms, and one record of 7 MB at a second
\* size, shown unchanged; KD-Tree has no record and no curve.
C6_Witness ==
  /\ ViewDone("memory")
  /\ CLOSEST_PAIR_KDTREE \notin AllAlgos
  /\ \E dm \in AllDims, s1, s2 \in AllSizes :
       /\ Cardinality(RecsAnyDist(CLOSEST_PAIR_NAIVE, dm, s1)) = 2
       /\ \E e \in Entries(ComplexityFile(dm, "Closest Pair"), 1, LabelNaive, s1) :
            EntryValue(1, e) = [n |-> 6, d |-> 1]
       /\ Cardinality(RecsAnyDist(CLOSEST_PAIR_NAIVE, dm, s2)) = 1
       /\ \E e \in Entries(MemoryFile(dm, "Closest Pair"), 1, LabelNaive, s2) :
            EntryValue(1, e) = [n |-> 7, d |-> 1]
       /\ \A s \in AllSizes :
            Entries(ComplexityFile(dm, "Closest Pair"), 1, LabelKDTree, s) = {}

----------------------------------------------------------------------------
(* Row order.                                                              *)

\* A total order of the loaded rows.
RowLess(a, b) ==
  \/ KeyLess(a, b, <<"Algorithm", "Dimension", "Size", "Distribution">>)
  \/ /\ ~KeyLess(b, a, <<"Algorithm", "Dimension", "Size", "Distribution">>)
     /\ \/ a.Time < b.Time
        \/ a.Time = b.Time /\ a.Mem < b.Mem

RECURSIVE SortRows(_)
SortRows(S) ==
  IF S = {} THEN <<>>
  ELSE LET m == CHOOSE x \in S : \A y \in S \ {x} : RowLess(x, y)
       IN <<m>> \o SortRows(S \ {m})

\* The rows of the dataset in sorted order, each as often as it occurs:
\* the one arrangement shared by all datasets of the same multiset of rows.
Canonical(rows) ==
  LET sorted == SortRows(Range(rows))
  IN Concat([k \in DOMAIN sorted |->
       [c \in 1..Cardinality({i \in DOMAIN rows : rows[i] = sorted[k]}) |->
          sorted[k]]])

Reverse(rows) == [i \in DOMAIN rows |-> rows[Len(rows) + 1 - i]]

\* The seven calls of the try block on a frame d: the figures saved up to
\* the first exception.
RunViews(d) ==
  CombineSteps(<<plot_time_complexity_by_dimension(d),
                 plot_distribution_comparison(d),
                 plot_memory_usage(d),
                 plot_dimension_comparison(d),
                 plot_performance_heatmap(d),
                 plot_relative_speedup(d),
                 create_unified_dashboard(d)>>)

\* What a run hands to the renderer on the loaded columns and the rows
\* given.
RunOn(rows) == RunViews([columns |-> df.columns, rows |-> rows])

SameAsRun(result) ==
  /\ rendered = result.figs
  /\ (raised # "none") = result.raised

\* C7: what a finished run handed to the renderer (every figure of every
\* view: its series, their order, labels and points) is what the views
\* compute from the same rows in sorted order, and from the same rows in
\* the opposite of sorted order; so two datasets of the same multiset of
\* rows, which share their sorted arrangement, give identical output.
C7_RowOrderIrrelevant ==
  (Done /\ Loaded) =>
    /\ SameAsRun(RunOn(Canonical(df.rows)))
    /\ SameAsRun(RunOn(Reverse(Canonical(df.rows))))

\* A finished run that saved the dashboard from rows that are neither in
\* sorted order nor in its opposite, two of them of one group of the
\* aggregation.
C7_Witness ==
  /\ Done
  /\ Loaded
  /\ ViewDone("dashboard")
  /\ df.rows # Canonical(df.rows)
  /\ df.rows # Reverse(Canonical(df.rows))
  /\ \E i, j \in DOMAIN df.rows :
       /\ i + 1 < j
       /\ df.rows[i].Algorithm = df.rows[j].Algorithm
       /\ df.rows[i].Dimension = df.rows[j].Dimension
       /\ df.rows[i].Size = df.rows[j].Size
       /\ df.rows[i].Time # df.rows[j].Time
       /\ RowLess(df.rows[j], df.rows[i])

----------------------------------------------------------------------------
(* The empty dataset.                                                      *)

\* The file has all its columns and no row.
EmptyDataset == Loaded /\ WellFormed /\ df.rows = <<>>

\* C11: on a dataset without rows the restriction to the largest size is
\* empty, and the distribution comparison view, once called, has returned
\* without raising and without saving a chart: it skipped every
\* dimension/group, and the run went on to the memory view.
C11_EmptyDatasetSkipped ==
  EmptyDataset =>
    /\ LargestData(df.rows) = <<>>
    /\ raised # "distribution"
    /\ FiguresOf("distributions") = <<>>
    /\ "distribution" \in Range(attempted) =>
         /\ ViewDone("distribution")
         /\ pc = "memory" \/ "memory" \in Range(attempted)
    /\ Done => {"distribution", "memory"} \subseteq Range(attempted)

\* A finished run on a dataset without rows: the distribution view returned
\* and the later views were called.
C11_Witness ==
  /\ EmptyDataset
  /\ Done
  /\ ViewDone("distribution")
  /\ ViewDone("speedup")
  /\ rendered = <<>>

----------------------------------------------------------------------------
(* The order of series and points.                                         *)

\* The points lie at strictly ascending sizes.
AscendingSizes(points) ==
  \A p, q \in DOMAIN points : p < q => points[p].x < points[q].x

\* The bars stand in strictly ascending order of their algorithm ids.
AscendingIds(points) ==
  \A p, q \in DOMAIN points : p < q => LexLess(points[p].cat, points[q].cat)

\* The strings of S in strictly ascending order.
Ascending(S) ==
  CHOOSE q \in [1..Cardinality(S) -> S] :
    \A i, j \in 1..Cardinality(S) : i < j => LexLess(q[i], q[j])

SeriesLabels(i, k) ==
  [j \in DOMAIN rendered[i].axes[k].series |-> rendered[i].axes[k].series[j].label]

LabelsOf(ids, prefix) == [j \in DOMAIN ids |-> prefix \o ViewLabel(ids[j])]

\* The ids with a record of dimension dm.
IdsOfDim(dm) ==
  {df.rows[i].Algorithm : i \in {j \in DOMAIN df.rows : df.rows[j].Dimension = dm}}

\* The ids of the complexity chart of dm and g: those of the derived group.
IdsOfField(dm, g) ==
  {df.rows[i].Algorithm :
     i \in {j \in DOMAIN df.rows :
              df.rows[j].Dimension = dm /\ df.rows[j].AlgorithmGroup = g}}

\* The ids a substring filter of group g keeps in dimension dm.
IdsOfMarker(dm, g) == {a \in IdsOfDim(dm) : InGroup(a, g)}

\* The non-baseline ids of group g with a record of dm and ds.
IdsOfSpeedup(dm, g, ds) ==
  {a \in Candidates(g) : \E s \in AllSizes : Recs(a, dm, s, ds) # {}}

\* The size-indexed series of axis k of figure i have their points at
\* strictly ascending sizes.
AxisAscending(i, k) ==
  \A j \in DOMAIN rendered[i].axes[k].series :
    AscendingSizes(rendered[i].axes[k].series[j].points)

\* C12, points: in every complexity, memory, dimension comparison, heatmap
\* and speedup chart and in the dashboard's complexity and speedup panels
\* the points of each series are at strictly ascending sizes; in the
\* distribution bar charts, whose points are one bar per algorithm at the
\* one largest size, the bars are in strictly ascending order of id.
PointsSorted ==
  \A i \in DOMAIN rendered :
    /\ rendered[i].file.kind
         \in {"complexity", "memory", "dimension_comparison", "heatmap", "speedup"} =>
         \A k \in DOMAIN rendered[i].axes : AxisAscending(i, k)
    /\ rendered[i].file.kind = "distributions" =>
         \A j \in DOMAIN rendered[i].axes[1].series :
           AscendingIds(rendered[i].axes[1].series[j].points)
    /\ rendered[i].file.kind = "dashboard" =>
         /\ \A k \in {1, 2, 3, 4, 7, 8} : AxisAscending(i, k)
         /\ \A k \in {5, 6} : \A j \in DOMAIN rendered[i].axes[k].series :
              AscendingIds(rendered[i].axes[k].series[j].points)

\* C12, series: the series of a chart are those of the ids present in the
\* chart's dimension and group, in ascending order of id (of display name
\* in a heatmap; of distribution in a bar chart), so their order is fixed
\* by the set of ids present; the dimension comparison charts are saved in
\* ascending order of id.
SeriesSorted ==
  /\ ViewDone("complexity") =>
       \A dm \in AllDims, g \in AllGroups : \A i \in FilesAt(ComplexityFile(dm, g)) :
         \A k \in {1, 2} :
           SeriesLabels(i, k) = LabelsOf(Ascending(IdsOfField(dm, g)), <<>>)
  /\ ViewDone("memory") =>
       \A dm \in AllDims, g \in AllGroups : \A i \in FilesAt(MemoryFile(dm, g)) :
         SeriesLabels(i, 1) = LabelsOf(Ascending(IdsOfMarker(dm, g)), <<>>)
  /\ ViewDone("dimension") =>
       [i \in DOMAIN FiguresOf("dimension_comparison") |->
          FiguresOf("dimension_comparison")[i].file.tag] = Ascending(AllAlgos)
  /\ ViewDone("heatmap") =>
       \A dm \in AllDims, g \in AllGroups : \A i \in FilesAt(HeatFile(dm, g)) :
         SeriesLabels(i, 1)
           = Ascending({ViewLabel(a) :
               a \in {b \in IdsOfMarker(dm, g) :
                        \E s \in AllSizes : Recs(b, dm, s, UNIFORM) # {}}})
  /\ ViewDone("speedup") =>
       \A dm \in AllDims, g \in AllGroups, ds \in AllDists :
         \A i \in FilesAt(SpeedupFile(dm, g, ds)) :
           SeriesLabels(i, 1) = LabelsOf(Ascending(IdsOfSpeedup(dm, g, ds)), <<>>)
  /\ ViewDone("distribution") =>
       \A dm \in AllDims, g \in AllGroups : \A i \in FilesAt(DistFile(dm, g)) :
         \A j, k \in DOMAIN rendered[i].axes[1].series :
           j < k => LexLess(rendered[i].axes[1].series[j].label,
                            rendered[i].axes[1].series[k].label)
  /\ ViewDone("dashboard") =>
       \A i \in FilesAt(DashboardFile) :
         /\ SeriesLabels(i, 1)
              = LabelsOf(Ascending(IdsOfMarker(TWO_D, "Closest Pair")), <<>>)
         /\ SeriesLabels(i, 2)
              = LabelsOf(Ascending(IdsOfMarker(THREE_D, "Closest Pair")), <<>>)
         /\ SeriesLabels(i, 3)
              = LabelsOf(Ascending(IdsOfMarker(TWO_D, "Diameter")), <<>>)
         /\ SeriesLabels(i, 4)
              = LabelsOf(Ascending(IdsOfMarker(THREE_D, "Diameter")), <<>>)
         /\ \A dm \in AllDims :
              SeriesLabels(i, DashAxis(dm))
                = LabelsOf(Ascending(IdsOfSpeedup(dm, "Closest Pair", UNIFORM)),
                           DashPrefix("Closest Pair"))
                  \o LabelsOf(Ascending(IdsOfSpeedup(dm, "Diameter", UNIFORM)),
                              DashPrefix("Diameter"))

\* C12: every table handed to the renderer is sorted: points at strictly
\* ascending sizes within each series, series in an order fixed by the set
\* of algorithm ids present.
C12_SortedTables == PointsSorted /\ SeriesSorted

\* A complexity chart drawn from rows given in descending order of id and
\* of size: two series, KD-Tree before Naive, the KD-Tree one with the two
\* sizes ascending.
C12_Witness ==
  /\ ViewDone("complexity")
  /\ \E i, j \in DOMAIN df.rows :
       /\ i < j
       /\ df.rows[i].Algorithm = CLOSEST_PAIR_NAIVE
       /\ df.rows[j].Algorithm = CLOSEST_PAIR_KDTREE
  /\ \E i, j \in DOMAIN df.rows :
       /\ i < j
       /\ df.rows[i].Algorithm = CLOSEST_PAIR_KDTREE
       /\ df.rows[j].Algorithm = CLOSEST_PAIR_KDTREE
       /\ df.rows[i].Dimension = TWO_D /\ df.rows[j].Dimension = TWO_D
       /\ df.rows[i].Size > df.rows[j].Size
  /\ \E f \in FilesAt(ComplexityFile(TWO_D, "Closest Pair")) :
       /\ SeriesLabels(f, 1) = <<LabelKDTree, LabelNaive>>
       /\ Len(rendered[f].axes[1].series[1].points) = 2

----------------------------------------------------------------------------
(* Family and variant, checked under SpecDerive.                           *)

\* v is what follows the last underscore of x (all of x when x has none).
IsLastToken(x, v) ==
  /\ \A k \in DOMAIN v : v[k] # "_"
  /\ Len(v) <= Len(x)
  /\ SubSeq(x, Len(x) - Len(v) + 1, Len(x)) = v
  /\ Len(v) < Len(x) => x[Len(x) - Len(v)] = "_"

\* C13 as stated: for every loaded id the derived variant is the token
\* after the last underscore, and the derived family, an underscore and the
\* variant put together give back the id.
C13_Original ==
  Loaded =>
    \A i \in DOMAIN df.rows :
      /\ IsLastToken(df.rows[i].Algorithm, df.rows[i].AlgorithmVariant)
      /\ df.rows[i].AlgorithmType \o <<"_">> \o df.rows[i].AlgorithmVariant
           = df.rows[i].Algorithm

----------------------------------------------------------------------------
(* The group of a record in each view.                                     *)

\* Axis k of file file holds a series of algorithm a.
Shown(file, k, a) ==
  \E i \in FilesAt(file) : \E j \in DOMAIN rendered[i].axes[k].series :
    rendered[i].axes[k].series[j].label = ViewLabel(a)

\* No other id of the dataset is displayed under the label of a, so a
\* series with that label is a series of a.
LabelIsOwn(a) == \A b \in AllAlgos : ViewLabel(b) = ViewLabel(a) => b = a

\* The bar chart file holds a bar of algorithm a.
ShownAsBar(file, a) ==
  \E i \in FilesAt(file) : \E j \in DOMAIN rendered[i].axes[1].series :
    \E q \in DOMAIN rendered[i].axes[1].series[j].points :
      rendered[i].axes[1].series[j].points[q].cat = a

\* The dashboard's complexity panel of a dimension and group.
DashComplexityAxis(dm, g) ==
  IF g = "Closest Pair" THEN (IF dm = TWO_D THEN 1 ELSE 2)
  ELSE (IF dm = TWO_D THEN 3 ELSE 4)

\* C14 as stated: every view shows a record in the chart of a group exactly
\* when the derived AlgorithmGroup field of the record names that group, as
\* the complexity view does: the memory chart, the heatmap (for a UNIFORM
\* record), the distribution chart (for a record of the largest size) and
\* the dashboard's complexity panel.
C14_Original ==
  \A i \in {j \in DOMAIN df.rows : LabelIsOwn(df.rows[j].Algorithm)} :
   \A g \in AllGroups :
    LET a == df.rows[i].Algorithm
        dm == df.rows[i].Dimension
        named == (df.rows[i].AlgorithmGroup = g)
    IN /\ ViewDone("complexity") =>
            (Shown(ComplexityFile(dm, g), 1, a) <=> named)
       /\ ViewDone("memory") =>
            (Shown(MemoryFile(dm, g), 1, a) <=> named)
       /\ (ViewDone("heatmap") /\ df.rows[i].Distribution = UNIFORM) =>
            (Shown(HeatFile(dm, g), 1, a) <=> named)
       /\ (ViewDone("distribution") /\ df.rows[i].Size = GlobalMax) =>
            (ShownAsBar(DistFile(dm, g), a) <=> named)
       /\ ViewDone("dashboard") =>
            (Shown(DashboardFile, DashComplexityAxis(dm, g), a) <=> named)

====
